---- MODULE Spec2Model ----
(***************************************************************************)
(* Model of the hybrid voice engine of mcp-ai-voice: the engine selector   *)
(* (src/src/voice-engine-selector.ts), the OpenAI engine it drives         *)
(* (src/src/openai-voice-engine.ts) and the `say` tool handler             *)
(* (src/src/index.ts).                                                     *)
(*                                                                         *)
(* JavaScript values are written as strings: "undefined", "true", "false", *)
(* "42" (a number) and any other string for a string value.  Error         *)
(* messages are sequences of text fragments, so that "message m contains   *)
(* fragment f" is a question the model can answer.                         *)
(***************************************************************************)
EXTENDS Integers, Sequences, FiniteSets, TLC

\* Number of requests (say calls or direct selector calls) in one run.
NumRequests == 2

Requests == 1..NumRequests

VARIABLES
    platform,        \* os.platform()
    isAvailable,     \* OpenAIVoiceEngine.isAvailable
    openai,          \* OpenAIVoiceEngine.openai: "null" or "client"
    preferOpenAI,    \* VoiceEngineSelector.preferOpenAI
    fallbackEnabled, \* VoiceEngineSelector.fallbackEnabled
    pc,              \* per request: position of its synthesizeVoice call
    entry,           \* per request: "none", "say" (tool handler) or "direct"
    opts,            \* per request: the HybridVoiceOptions it carries
    selectedEngine,  \* per request: selectEngine's answer inside synthesizeVoice
    preview,         \* per request: outcome of getUsedVoiceInfo(options)
    attempts,        \* per request: backends invoked, in order
    cloudResponse,   \* per request: what the OpenAI API call came back with
    thrown,          \* per request: error travelling to the catch of synthesizeVoice
    fallbackError,   \* per request: the fallbackError argument of synthesizeWithPlatform
    result,          \* per request: how the synthesizeVoice promise settled
    ack,             \* per request: what the say handler answered
    credentialError, \* per request: the "not available (no API key)" error was thrown
    clock,           \* Date.now(), in milliseconds since the program started
    startTime,       \* per request: startTime of synthesizeVoice, -1 before the call
    attemptStart,    \* per request: clock reading when its latest attempt began
    duration,        \* per request: duration of the result object, -1 without one
    filePath,        \* per request: the audio file the OpenAI engine wrote
    ttsEnv,          \* process.env: DEFAULT_TTS_VOICE, DEFAULT_TTS_SPEED
    availableVoices, \* VoiceIntelligence.availableVoices, in discovery order
    probe,           \* the last request prepared: its preview and its backend invocation
    ackTag,          \* per request: the engine tag in the text the say handler answered
    player,          \* per request: the file handed to playAudioInBackground's command
    boot             \* the process: position of main(), credential read, initialize() runs

vars == <<platform, isAvailable, openai, preferOpenAI,
          fallbackEnabled, pc, entry, opts, selectedEngine, preview, attempts,
          cloudResponse, thrown, fallbackError, result, ack, credentialError,
          clock, startTime, attemptStart, duration, filePath,
          ttsEnv, availableVoices, probe, ackTag, player, boot>>

\* What the requests and the clock change.
requestVars == <<pc, entry, opts, selectedEngine, preview, attempts, cloudResponse,
                 thrown, fallbackError, result, ack, credentialError, clock,
                 startTime, attemptStart, duration, filePath, ackTag, player>>

\* What is fixed once the server has been constructed and initialized.
envVars == <<platform, isAvailable, openai, preferOpenAI, ttsEnv, availableVoices, boot>>

----------------------------------------------------------------------------
\* Values and helpers

Platforms == {"darwin", "win32", "linux", "freebsd"}
SupportedPlatforms == {"darwin", "win32", "linux"}

ApiKeys == {"undefined", "", "  ", "sk-key"}

OPENAI_VOICES == {"alloy", "echo", "fable", "onyx", "nova", "shimmer"}

\* What the OpenAI API call can come back with: audio, or a failure.
CloudFailures == {"auth", "network"}
CloudOutcomes == {"ok"} \cup CloudFailures

LocalOutcomes == {"ok", "exit1"}

TypeOf(v) ==
    CASE v = "undefined" -> "undefined"
      [] v \in {"true", "false"} -> "boolean"
      [] v = "42" -> "number"
      [] OTHER -> "string"

Contains(msg, fragment) == \E i \in DOMAIN msg : msg[i] = fragment

NoError == << >>

NotAvailableMessage == <<"OpenAI TTS Engine is not available (no API key configured)">>
VoiceTypeError == <<"TypeError: Cannot read properties of undefined (reading 'description')">>

NoResult == [kind |-> "none", engine |-> "none", success |-> FALSE, error |-> NoError]
NoOptions == [useOpenAI |-> "undefined", openaiVoice |-> "undefined"]
NoResponse == [state |-> "none", success |-> FALSE, voiceUsed |-> "undefined", error |-> NoError]

----------------------------------------------------------------------------
\* OpenAIVoiceEngine

\* constructor: the key must be present and not only whitespace, and the
\* client construction must not throw.
\* Variant: the key is not trimmed before its length is looked at.
KeyUsable_Untrimmed(key) == key \notin {"undefined", ""}

KeyUsable(key) == key \notin {"undefined", "", "  "}

ConstructedAvailable(key, throws) == KeyUsable(key) /\ ~throws

ConstructedClient(key, throws) ==
    IF KeyUsable(key) /\ ~throws THEN "client" ELSE "null"

isEngineAvailable == isAvailable /\ openai # "null"

\* Variant: Cloud is preferred whenever an API key is configured.
ConstructedPreference_KeyPresent(key, throws) == KeyUsable(key)

\* preferOpenAI as the selector's constructor sets it: the answer of
\* isEngineAvailable() of the engine it has just constructed.
ConstructedPreference(key, throws) ==
    ConstructedAvailable(key, throws) /\ ConstructedClient(key, throws) # "null"

\* getOptimalVoice: DEFAULT_TTS_VOICE when it names a voice of the table,
\* nova otherwise.
getOptimalVoice(envVoice) ==
    IF envVoice # "undefined" /\ envVoice # "" /\ envVoice \in OPENAI_VOICES
    THEN envVoice
    ELSE "nova"

\* OpenAIVoiceEngine.defaultVoice, set by the constructor.
defaultVoice == getOptimalVoice(ttsEnv.DEFAULT_TTS_VOICE)

\* getVoiceInfo dereferences OPENAI_VOICES[selectedVoice].description: it
\* throws a TypeError for a voice that is not a key of the table.
getVoiceInfoThrows(voice) ==
    LET selectedVoice == IF voice = "undefined" THEN defaultVoice ELSE voice
    IN  selectedVoice \notin OPENAI_VOICES

\* The message the catch block of OpenAIVoiceEngine.synthesizeVoice builds.
CloudErrorMessage(outcome) == <<"OpenAI API Error", outcome>>

\* The OpenAIVoiceResponse returned once the API call has come back.
OpenAIResponse(o, outcome) ==
    LET voice == IF o.openaiVoice = "undefined" THEN defaultVoice ELSE o.openaiVoice
    IN  IF outcome = "ok"
        THEN [state |-> "returned", success |-> TRUE, voiceUsed |-> voice, error |-> NoError]
        ELSE [state |-> "returned", success |-> FALSE, voiceUsed |-> voice,
              error |-> CloudErrorMessage(outcome)]

----------------------------------------------------------------------------
\* VoiceEngineSelector

isOpenAIAvailable == isEngineAvailable

\* selectEngine with the availability test of the explicit branch left out.
selectEngine_TrustsRequest(o) ==
    IF o.useOpenAI = "true" THEN "openai"
    ELSE IF o.useOpenAI = "false" THEN "platform"
    ELSE IF preferOpenAI /\ isOpenAIAvailable THEN "openai"
    ELSE "platform"

\* selectEngine with the auto-selection tested before the explicit platform
\* request.
selectEngine_AutoFirst(o) ==
    IF o.useOpenAI = "true" /\ isOpenAIAvailable THEN "openai"
    ELSE IF preferOpenAI /\ isOpenAIAvailable THEN "openai"
    ELSE IF o.useOpenAI = "false" THEN "platform"
    ELSE "platform"

\* selectEngine without the auto-selection branch.
selectEngine_NoAuto(o) ==
    IF o.useOpenAI = "true" /\ isOpenAIAvailable THEN "openai"
    ELSE "platform"

\* Variant: OpenAI is selected only while the fallback is enabled.
selectEngine_NeedsFallback(o) ==
    IF o.useOpenAI = "true" /\ isOpenAIAvailable /\ fallbackEnabled THEN "openai"
    ELSE IF o.useOpenAI = "false" THEN "platform"
    ELSE IF preferOpenAI /\ isOpenAIAvailable /\ fallbackEnabled THEN "openai"
    ELSE "platform"

selectEngine(o) ==
    IF o.useOpenAI = "true" /\ isOpenAIAvailable THEN "openai"
    ELSE IF o.useOpenAI = "false" THEN "platform"
    ELSE IF preferOpenAI /\ isOpenAIAvailable THEN "openai"
    ELSE "platform"

\* getUsedVoiceInfo deciding on availability alone instead of calling
\* selectEngine.
getUsedVoiceInfo_OwnRule(o) ==
    IF isOpenAIAvailable
    THEN (IF getVoiceInfoThrows(IF o.openaiVoice = "undefined" THEN "nova" ELSE o.openaiVoice)
          THEN "threw" ELSE "openai")
    ELSE "platform"

\* getUsedVoiceInfo: the engine the description names, or "threw" when
\* building the description throws.
getUsedVoiceInfo(o) ==
    LET sel == selectEngine(o)
    IN  IF sel = "openai"
        THEN (IF getVoiceInfoThrows(IF o.openaiVoice = "undefined" THEN "nova" ELSE o.openaiVoice)
              THEN "threw" ELSE "openai")
        ELSE "platform"

getEngineStatus ==
    [platform |-> TRUE,
     openai |-> isOpenAIAvailable,
     preferred |-> IF preferOpenAI THEN "openai" ELSE "platform"]

\* The catch condition without the test of the engine that failed.
ShouldFallback_AnyEngine(sel, enabled) == enabled

\* The catch condition without the test of the fallback flag.
ShouldFallback_Always(sel, enabled) == sel = "openai"

\* The condition of the catch block of synthesizeVoice.
ShouldFallback(sel, enabled) == sel = "openai" /\ enabled

\* getVoiceCommand throws on a platform it has no command for.
getVoiceCommandThrows == platform \notin SupportedPlatforms

UnsupportedPlatformMessage == <<"Unsupported platform", platform>>

PlatformFailureMessage(outcome) == <<"Platform synthesis failed", outcome>>

FallbackNote(err) == <<"Fallback after OpenAI error">> \o err


NoTtsEnv == [DEFAULT_TTS_VOICE |-> "undefined", DEFAULT_TTS_SPEED |-> "undefined"]

NoProbe == [state |-> "none"]

NoFallbackError == [set |-> FALSE, message |-> NoError]

Resolved(engine, success, error) ==
    [kind |-> "resolved", engine |-> engine, success |-> success, error |-> error]

\* A rejected promise carries an Error, not a VoiceEngineResponse: it has a
\* message and no engine or success field.
Rejected(error) ==
    [kind |-> "rejected", engine |-> "none", success |-> FALSE, error |-> error]

\* The availability guard at the top of OpenAIVoiceEngine.synthesizeVoice.
\* The audio file of a synthesis: openai_tts_<timestamp>.<response_format> in
\* the output directory, timestamp being Date.now() after the audio arrived.
FilePath(timestamp, response_format) ==
    [dir |-> "mcp-nexus-voice-openai", timestamp |-> timestamp, ext |-> response_format]

NoFile == [dir |-> "none", timestamp |-> -1, ext |-> "none"]

\* Variant: the duration is counted from the start of the latest attempt.
Elapsed_SinceAttempt(r) == clock - attemptStart[r]

\* Date.now() - startTime, startTime being the one taken by synthesizeVoice
\* and handed to synthesizeWithOpenAI and synthesizeWithPlatform.
Elapsed(r) == clock - startTime[r]

\* playAudioInBackground runs a player command on these platforms and
\* returns without one on any other.
HasAudioPlayer == platform \in {"darwin", "win32", "linux"}

EngineGuardThrows == ~isAvailable \/ openai = "null"

\* The synchronous part of synthesizeVoice(text, o): selectEngine, then the
\* chosen synthesizeWith... up to its first suspension point.
Dispatch(o) ==
    LET sel == selectEngine(o)
    IN  IF sel = "openai"
        THEN IF EngineGuardThrows
             THEN [sel |-> sel, pc |-> "thrown", thrown |-> NotAvailableMessage,
                   attempts |-> << >>, credentialError |-> TRUE]
             ELSE [sel |-> sel, pc |-> "awaitCloud", thrown |-> NoError,
                   attempts |-> <<"openai">>, credentialError |-> FALSE]
        ELSE IF getVoiceCommandThrows
             THEN [sel |-> sel, pc |-> "thrown", thrown |-> UnsupportedPlatformMessage,
                   attempts |-> << >>, credentialError |-> FALSE]
             ELSE [sel |-> sel, pc |-> "awaitLocal", thrown |-> NoError,
                   attempts |-> <<"platform">>, credentialError |-> FALSE]

----------------------------------------------------------------------------
\* Initial state: the constructors have run, no request has arrived.

\* The language codes of a voice list, each once, in the order in which
\* buildLanguageMapping meets them.
LanguageCodes(voices) ==
    LET First(i) == \A j \in 1..(i - 1) : voices[j].languageCode # voices[i].languageCode
        firsts == SelectSeq([i \in 1..Len(voices) |-> i], First)
    IN  [k \in 1..Len(firsts) |-> voices[firsts[k]].languageCode]

\* The process once main() has connected the transport.  What startup read
\* and counted is kept only where startup is part of the run.
Booted == [phase |-> "connected"]

\* Variant: a request for OpenAI is tagged OpenAI whatever the engine status.
EngineTag_TrustsRequest(o) ==
    IF o.useOpenAI = "true" THEN "[OpenAI TTS]"
    ELSE IF o.useOpenAI = "false" THEN "[Platform TTS]"
    ELSE IF getEngineStatus.openai THEN "[Auto: OpenAI preferred]"
    ELSE "[Platform TTS]"

\* The engine tag the say handler appends to its answer.
EngineTag(o) ==
    IF o.useOpenAI = "true" /\ getEngineStatus.openai THEN "[OpenAI TTS]"
    ELSE IF o.useOpenAI = "false" THEN "[Platform TTS]"
    ELSE IF getEngineStatus.openai THEN "[Auto: OpenAI preferred]"
    ELSE "[Platform TTS]"

TypeOK ==
    /\ platform \in Platforms
    /\ isAvailable \in BOOLEAN
    /\ openai \in {"null", "client"}
    /\ preferOpenAI \in BOOLEAN
    /\ fallbackEnabled \in BOOLEAN
    /\ pc \in [Requests -> {"idle", "refused", "awaitCloud", "awaitLocal", "thrown", "done"}]
    /\ entry \in [Requests -> {"none", "say", "direct"}]
    /\ selectedEngine \in [Requests -> {"none", "openai", "platform"}]
    /\ preview \in [Requests -> {"none", "openai", "platform", "threw"}]
    /\ ack \in [Requests -> {"none", "ok", "MethodNotFound", "InvalidParams", "InternalError"}]
    /\ credentialError \in [Requests -> BOOLEAN]

\* No request has arrived.
NoRequests ==
    /\ pc = [r \in Requests |-> "idle"]
    /\ entry = [r \in Requests |-> "none"]
    /\ opts = [r \in Requests |-> NoOptions]
    /\ selectedEngine = [r \in Requests |-> "none"]
    /\ preview = [r \in Requests |-> "none"]
    /\ attempts = [r \in Requests |-> << >>]
    /\ cloudResponse = [r \in Requests |-> NoResponse]
    /\ thrown = [r \in Requests |-> NoError]
    /\ fallbackError = [r \in Requests |-> NoFallbackError]
    /\ result = [r \in Requests |-> NoResult]
    /\ ack = [r \in Requests |-> "none"]
    /\ credentialError = [r \in Requests |-> FALSE]
    /\ clock = 0
    /\ startTime = [r \in Requests |-> -1]
    /\ attemptStart = [r \in Requests |-> -1]
    /\ duration = [r \in Requests |-> -1]
    /\ filePath = [r \in Requests |-> NoFile]
    /\ probe = NoProbe
    /\ ackTag = [r \in Requests |-> "none"]
    /\ player = [r \in Requests |-> NoFile]

CoreInit ==
    /\ platform \in Platforms
    /\ \E key \in ApiKeys, throws \in BOOLEAN :
          /\ isAvailable = ConstructedAvailable(key, throws)
          /\ openai = ConstructedClient(key, throws)
          /\ preferOpenAI = ConstructedPreference(key, throws)
    /\ fallbackEnabled = TRUE
    /\ NoRequests

\* The server started with no DEFAULT_TTS_* variable in its environment; the
\* voices of the platform are not looked at.
Init ==
    /\ CoreInit
    /\ ttsEnv = NoTtsEnv
    /\ availableVoices = << >>
    /\ boot = Booted

----------------------------------------------------------------------------
\* Inputs

UseOpenAIOptions == {"undefined", "true", "false"}
\* openaiVoice values: absent (the default voice, a key of OPENAI_VOICES, is
\* used) or a voice name that is not a key of OPENAI_VOICES.
VoiceOptions == {"undefined", "coral"}

\* Options a client of the selector can pass to synthesizeVoice.
HybridOptions == [useOpenAI : UseOpenAIOptions, openaiVoice : VoiceOptions]

\* Arguments of a tools/call request.
SayArguments ==
    [name : {"say"}, args : {"object"}, text : {"Hello"},
     useOpenAI : UseOpenAIOptions \cup {"yes"}, openaiVoice : VoiceOptions]
    \cup
    {[name |-> "other", args |-> "object", text |-> "Hello",
      useOpenAI |-> "undefined", openaiVoice |-> "undefined"],
     [name |-> "say", args |-> "undefined", text |-> "undefined",
      useOpenAI |-> "undefined", openaiVoice |-> "undefined"],
     [name |-> "say", args |-> "object", text |-> "42",
      useOpenAI |-> "true", openaiVoice |-> "undefined"],
     [name |-> "say", args |-> "object", text |-> "undefined",
      useOpenAI |-> "undefined", openaiVoice |-> "undefined"]}

\* Variant: a request is taken up only when every earlier one has ended.
NextRequest_AfterPrevious(r) ==
    /\ entry[r] = "none"
    /\ \A q \in Requests : q < r => pc[q] \in {"done", "refused"}

\* Requests are numbered in the order in which they arrive.
NextRequest(r) ==
    /\ entry[r] = "none"
    /\ \A q \in Requests : q < r => entry[q] # "none"

\* The hybridOptions the handler builds from the raw arguments.
BuildHybridOptions(a) ==
    [useOpenAI |-> IF TypeOf(a.useOpenAI) = "boolean" THEN a.useOpenAI ELSE "undefined",
     openaiVoice |-> IF TypeOf(a.openaiVoice) = "string" THEN a.openaiVoice ELSE "undefined"]

\* Variant: the text is only required to be present, whatever its type.
Validate_TextPresent(a) ==
    IF a.name # "say" THEN "MethodNotFound"
    ELSE IF a.args # "object" THEN "InvalidParams"
    ELSE IF a.text = "undefined" THEN "InvalidParams"
    ELSE "ok"

\* The validation at the top of the CallToolRequestSchema handler.
Validate(a) ==
    IF a.name # "say" THEN "MethodNotFound"
    ELSE IF a.args # "object" THEN "InvalidParams"
    ELSE IF TypeOf(a.text) # "string" THEN "InvalidParams"
    ELSE "ok"

----------------------------------------------------------------------------
\* Actions

\* synthesizeVoice called on the selector with options o.
BeginSynthesis(r, o) ==
    LET d == Dispatch(o)
    IN  /\ opts' = [opts EXCEPT ![r] = o]
        /\ selectedEngine' = [selectedEngine EXCEPT ![r] = d.sel]
        /\ pc' = [pc EXCEPT ![r] = d.pc]
        /\ thrown' = [thrown EXCEPT ![r] = d.thrown]
        /\ attempts' = [attempts EXCEPT ![r] = d.attempts]
        /\ credentialError' = [credentialError EXCEPT ![r] = d.credentialError]
        /\ startTime' = [startTime EXCEPT ![r] = clock]
        /\ attemptStart' = [attemptStart EXCEPT ![r] = clock]

\* The CallToolRequestSchema handler, from the arrival of the call to the
\* answer it returns.
Say(r, a) ==
    /\ boot.phase = "connected"
    /\ NextRequest(r)
    /\ entry' = [entry EXCEPT ![r] = "say"]
    /\ IF Validate(a) # "ok"
       THEN /\ ack' = [ack EXCEPT ![r] = Validate(a)]
            /\ pc' = [pc EXCEPT ![r] = "refused"]
            /\ UNCHANGED <<opts, selectedEngine, preview, thrown, attempts, credentialError,
                           startTime, attemptStart>>
       ELSE LET o == BuildHybridOptions(a)
                usedVoice == getUsedVoiceInfo(o)
            IN  /\ preview' = [preview EXCEPT ![r] = usedVoice]
                /\ IF usedVoice = "threw"
                   THEN /\ ack' = [ack EXCEPT ![r] = "InternalError"]
                        /\ pc' = [pc EXCEPT ![r] = "refused"]
                        /\ opts' = [opts EXCEPT ![r] = o]
                        /\ UNCHANGED <<selectedEngine, thrown, attempts, credentialError,
                                       startTime, attemptStart>>
                   ELSE /\ BeginSynthesis(r, o)
                        /\ ack' = [ack EXCEPT ![r] = "ok"]
    /\ ackTag' = [ackTag EXCEPT ![r] =
                     IF ack'[r] = "ok" THEN EngineTag(BuildHybridOptions(a)) ELSE @]
    /\ UNCHANGED <<envVars, probe, fallbackEnabled, cloudResponse, fallbackError, result,
                   clock, duration, filePath, player>>

\* A client of the selector asks getUsedVoiceInfo(o), whatever it answers or
\* throws, and then calls synthesizeVoice(text, o).
DirectSynthesize(r, o) ==
    /\ NextRequest(r)
    /\ entry' = [entry EXCEPT ![r] = "direct"]
    /\ preview' = [preview EXCEPT ![r] = getUsedVoiceInfo(o)]
    /\ BeginSynthesis(r, o)
    /\ UNCHANGED <<envVars, probe, fallbackEnabled, cloudResponse, fallbackError, result,
                   ack, ackTag, clock, duration, filePath, player>>

\* Variant: without a fallback the catch block starts the OpenAI attempt again.
CatchBlock_RetriesCloud(sel, err) ==
    IF ShouldFallback(sel, fallbackEnabled)
    THEN IF getVoiceCommandThrows
         THEN [pc |-> "done", retry |-> << >>,
               fallbackError |-> [set |-> TRUE, message |-> err],
               result |-> Rejected(UnsupportedPlatformMessage)]
         ELSE [pc |-> "awaitLocal", retry |-> <<"platform">>,
               fallbackError |-> [set |-> TRUE, message |-> err],
               result |-> NoResult]
    ELSE IF sel = "openai"
         THEN [pc |-> "awaitCloud", retry |-> << >>,
               fallbackError |-> NoFallbackError,
               result |-> NoResult]
         ELSE [pc |-> "done", retry |-> << >>,
               fallbackError |-> NoFallbackError,
               result |-> Rejected(err)]

\* The catch block of synthesizeVoice, entered with error err for a request
\* whose selected engine is sel: what becomes of the request.
CatchBlock(sel, err) ==
    IF ShouldFallback(sel, fallbackEnabled)
    THEN IF getVoiceCommandThrows
         THEN [pc |-> "done", retry |-> << >>,
               fallbackError |-> [set |-> TRUE, message |-> err],
               result |-> Rejected(UnsupportedPlatformMessage)]
         ELSE [pc |-> "awaitLocal", retry |-> <<"platform">>,
               fallbackError |-> [set |-> TRUE, message |-> err],
               result |-> NoResult]
    ELSE [pc |-> "done", retry |-> << >>,
          fallbackError |-> NoFallbackError,
          result |-> Rejected(err)]

\* Request r enters the catch block of synthesizeVoice with error err.
EnterCatch(r, err) ==
    LET c == CatchBlock(selectedEngine[r], err)
    IN  /\ thrown' = [thrown EXCEPT ![r] = err]
        /\ pc' = [pc EXCEPT ![r] = c.pc]
        /\ attempts' = [attempts EXCEPT ![r] = @ \o c.retry]
        /\ fallbackError' = [fallbackError EXCEPT ![r] = c.fallbackError]
        /\ result' = [result EXCEPT ![r] = c.result]
        /\ attemptStart' = [attemptStart EXCEPT ![r] =
                               IF c.pc = "awaitLocal" THEN clock ELSE @]

\* The OpenAI API call of request r comes back: OpenAIVoiceEngine.synthesizeVoice
\* returns its response and synthesizeWithOpenAI builds the VoiceEngineResponse;
\* if that throws, the catch block of synthesizeVoice runs in the same turn.
CloudReturn(r, outcome) ==
    /\ pc[r] = "awaitCloud"
    /\ LET response == OpenAIResponse(opts[r], outcome)
       IN  /\ cloudResponse' = [cloudResponse EXCEPT ![r] = response]
           /\ filePath' = [filePath EXCEPT ![r] =
                              IF response.success THEN FilePath(clock, "mp3") ELSE @]
           /\ player' = [player EXCEPT ![r] =
                            IF response.success /\ HasAudioPlayer
                            THEN FilePath(clock, "mp3") ELSE @]
           /\ IF getVoiceInfoThrows(response.voiceUsed)
              THEN EnterCatch(r, VoiceTypeError) /\ UNCHANGED duration
              ELSE /\ pc' = [pc EXCEPT ![r] = "done"]
                   /\ result' = [result EXCEPT ![r] =
                                    Resolved("openai", response.success, response.error)]
                   /\ duration' = [duration EXCEPT ![r] = Elapsed(r)]
                   /\ UNCHANGED <<thrown, attempts, fallbackError, attemptStart>>
    /\ UNCHANGED <<envVars, probe, fallbackEnabled, entry, opts, selectedEngine, preview,
                   ack, ackTag, credentialError, clock, startTime>>

\* The exec callback of synthesizeWithPlatform fires for request r.  A failure
\* of the first attempt rejects inside the try block and reaches the catch
\* block in the same turn; a failure of the attempt made from the catch block
\* rejects the promise of synthesizeVoice.
LocalReturn(r, outcome) ==
    /\ pc[r] = "awaitLocal"
    /\ IF outcome = "ok"
       THEN /\ pc' = [pc EXCEPT ![r] = "done"]
            /\ result' = [result EXCEPT ![r] =
                   Resolved("platform", TRUE,
                            IF fallbackError[r].set
                            THEN FallbackNote(fallbackError[r].message)
                            ELSE NoError)]
            /\ duration' = [duration EXCEPT ![r] = Elapsed(r)]
            /\ UNCHANGED <<thrown, attempts, fallbackError, attemptStart>>
       ELSE IF fallbackError[r].set
            THEN /\ pc' = [pc EXCEPT ![r] = "done"]
                 /\ result' = [result EXCEPT ![r] = Rejected(PlatformFailureMessage(outcome))]
                 /\ UNCHANGED <<thrown, attempts, fallbackError, attemptStart, duration>>
            ELSE EnterCatch(r, PlatformFailureMessage(outcome)) /\ UNCHANGED duration
    /\ UNCHANGED <<envVars, probe, fallbackEnabled, entry, opts, selectedEngine, preview,
                   cloudResponse, ack, ackTag, credentialError, clock, startTime, filePath, player>>

\* An error thrown before the first suspension point of the attempt (the
\* availability guard of the OpenAI engine, getVoiceCommand) is delivered to
\* the catch block once the caller's synchronous code has run.
\* Variant: the error delivered to the catch block is also put in the answer
\* of the tool call.
Catch_AnswersCaller(r) ==
    /\ pc[r] = "thrown"
    /\ EnterCatch(r, thrown[r])
    /\ ack' = [ack EXCEPT ![r] = IF entry[r] = "say" THEN "InternalError" ELSE @]
    /\ UNCHANGED <<envVars, probe, fallbackEnabled, entry, opts, selectedEngine, preview,
                   cloudResponse, ackTag, credentialError, clock, startTime, duration,
                   filePath, player>>

Catch(r) ==
    /\ pc[r] = "thrown"
    /\ EnterCatch(r, thrown[r])
    /\ UNCHANGED <<envVars, probe, fallbackEnabled, entry, opts, selectedEngine, preview,
                   cloudResponse, ack, ackTag, credentialError, clock, startTime, duration,
                   filePath, player>>

\* Variant: the setter also rewrites the engine preference.
setFallbackEnabled_SetsPreference(enabled) ==
    /\ fallbackEnabled # enabled
    /\ fallbackEnabled' = enabled
    /\ preferOpenAI' = enabled
    /\ UNCHANGED <<platform, isAvailable, openai, ttsEnv, availableVoices, boot, probe,
                   pc, entry, opts, selectedEngine,
                   preview, attempts, cloudResponse, thrown, fallbackError, result,
                   ack, ackTag, credentialError, clock, startTime, attemptStart, duration,
                   filePath, player>>

setFallbackEnabled(enabled) ==
    /\ fallbackEnabled # enabled
    /\ fallbackEnabled' = enabled
    /\ UNCHANGED <<envVars, probe, pc, entry, opts, selectedEngine, preview, attempts,
                   cloudResponse, thrown, fallbackError, result, ack, ackTag, credentialError,
                   clock, startTime, attemptStart, duration, filePath, player>>

Next ==
    \/ \E r \in Requests : \E a \in SayArguments : Say(r, a)
    \/ \E r \in Requests : \E o \in HybridOptions : DirectSynthesize(r, o)
    \/ \E r \in Requests : \E outcome \in CloudOutcomes : CloudReturn(r, outcome)
    \/ \E r \in Requests : \E outcome \in LocalOutcomes : LocalReturn(r, outcome)
    \/ \E r \in Requests : Catch(r)
    \/ \E enabled \in BOOLEAN : setFallbackEnabled(enabled)

Spec == Init /\ [][Next]_vars

\* Every backend invocation eventually returns (the HTTP call of the OpenAI
\* client settles, the exec callback fires), and the event loop eventually
\* delivers a pending rejection to the catch block.
Fairness ==
    \A r \in Requests :
        /\ WF_vars(\E outcome \in CloudOutcomes : CloudReturn(r, outcome))
        /\ WF_vars(\E outcome \in LocalOutcomes : LocalReturn(r, outcome))
        /\ WF_vars(Catch(r))

\* The steps of synthesizeVoice calls made on the selector: every synthesis
\* the say handler starts is such a call with the options the handler built.
SelectorNext ==
    \/ \E r \in Requests : \E o \in HybridOptions : DirectSynthesize(r, o)
    \/ \E r \in Requests : \E outcome \in CloudOutcomes : CloudReturn(r, outcome)
    \/ \E r \in Requests : \E outcome \in LocalOutcomes : LocalReturn(r, outcome)
    \/ \E r \in Requests : Catch(r)
    \/ \E enabled \in BOOLEAN : setFallbackEnabled(enabled)

FairSpec == Init /\ [][SelectorNext]_vars /\ Fairness

\* The steps of the server's clients: say calls through the tool handler and
\* what follows from them.
HandlerNext ==
    \/ \E r \in Requests : \E a \in SayArguments : Say(r, a)
    \/ \E r \in Requests : \E outcome \in CloudOutcomes : CloudReturn(r, outcome)
    \/ \E r \in Requests : \E outcome \in LocalOutcomes : LocalReturn(r, outcome)
    \/ \E r \in Requests : Catch(r)
    \/ \E enabled \in BOOLEAN : setFallbackEnabled(enabled)

HandlerSpec == Init /\ [][HandlerNext]_vars

----------------------------------------------------------------------------
\* The selector with the clock running

\* Largest clock reading of a run.
MaxClock == 2

\* A millisecond passes.
Tick ==
    /\ clock < MaxClock
    /\ clock' = clock + 1
    /\ UNCHANGED <<envVars, probe, fallbackEnabled, pc, entry, opts, selectedEngine,
                   preview, attempts, cloudResponse, thrown, fallbackError, result,
                   ack, ackTag, credentialError, startTime, attemptStart, duration,
                   filePath, player>>

\* A machine with a platform voice command and a working OpenAI client.
TimedInit ==
    /\ Init
    /\ platform = "darwin"
    /\ isAvailable /\ openai = "client"

\* Requests that name their engine: with the OpenAI engine available an
\* unset useOpenAI is routed as useOpenAI = true is.
TimedOptions == {o \in HybridOptions : o.useOpenAI # "undefined"}

TimedNext ==
    \/ Tick
    \/ \E r \in Requests : \E o \in TimedOptions : DirectSynthesize(r, o)
    \/ \E r \in Requests : \E outcome \in CloudOutcomes : CloudReturn(r, outcome)
    \/ \E r \in Requests : \E outcome \in LocalOutcomes : LocalReturn(r, outcome)

TimedSpec == TimedInit /\ [][TimedNext]_vars

----------------------------------------------------------------------------
\* What a request is told about its voice and what its first attempt hands
\* to the backend

\* Voices as discovery records them: on every platform id and name are the
\* same string.
Voice(id, languageCode, quality, gender) ==
    [id |-> id, name |-> id, languageCode |-> languageCode,
     quality |-> quality, gender |-> gender]

NoVoice == Voice("null", "null", "standard", "male")

\* Voice lists a discovery can produce: nothing (the listing command failed or
\* the platform has none) or the list the platform's command prints.
Installations(p) ==
    {<< >>} \cup
    (CASE p = "darwin" ->
            {<<Voice("Zofia", "pl", "standard", "female"),
               Voice("Krzysztof (Enhanced)", "pl", "enhanced", "male"),
               Voice("Samantha", "en", "standard", "female")>>}
       [] p = "win32" ->
            {<<Voice("Microsoft David Desktop", "en", "standard", "male"),
               Voice("Microsoft Paulina Desktop", "pl", "standard", "female")>>}
       [] p = "linux" ->
            {<<Voice("en-gb", "en", "standard", "male"),
               Voice("en-us", "en", "standard", "male"),
               Voice("pl", "pl", "standard", "male")>>}
       [] OTHER -> {})

\* String.prototype.toLowerCase on the strings of the model.
toLowerCase(str) ==
    CASE str = "Zofia" -> "zofia"
      [] str = "Samantha" -> "samantha"
      [] str = "Krzysztof (Enhanced)" -> "krzysztof (enhanced)"
      [] str = "Ewa" -> "ewa"
      [] str = "Microsoft David Desktop" -> "microsoft david desktop"
      [] str = "Microsoft Paulina Desktop" -> "microsoft paulina desktop"
      [] OTHER -> str

\* JavaScript truthiness of a string-or-undefined value.
Truthy(v) == v \notin {"undefined", ""}

\* a || b on such values.
OrElse(a, b) == IF Truthy(a) THEN a ELSE b

qualityOrder(q) == CASE q = "premium" -> 3 [] q = "enhanced" -> 2 [] OTHER -> 1

\* The comparator of buildLanguageMapping says a sorts before b.
\* Variant: a male voice sorts first, the quality decides among the rest.
SortsBefore_GenderFirst(a, b) ==
    \/ a.gender = "male" /\ b.gender # "male"
    \/ /\ (a.gender = "male") = (b.gender = "male")
       /\ qualityOrder(a.quality) > qualityOrder(b.quality)

SortsBefore(a, b) ==
    \/ qualityOrder(a.quality) > qualityOrder(b.quality)
    \/ /\ qualityOrder(a.quality) = qualityOrder(b.quality)
       /\ a.gender = "male" /\ b.gender # "male"

\* languageMapping[languageCode]?.bestVoice || null: the first voice of the
\* language in the (stable) sort by the comparator.
getBestVoiceForLanguage(languageCode) ==
    LET group == {i \in DOMAIN availableVoices :
                     availableVoices[i].languageCode = languageCode}
        first == {i \in group :
                     \A j \in group :
                        /\ ~SortsBefore(availableVoices[j], availableVoices[i])
                        /\ (j < i => SortsBefore(availableVoices[i], availableVoices[j]))}
    IN  IF group = {} THEN NoVoice
        ELSE availableVoices[CHOOSE i \in first : TRUE]

isVoiceName(param) == Len(param) > 2 /\ platform = "darwin"

findVoiceByName(voiceName) ==
    LET found == {i \in DOMAIN availableVoices :
                     \/ toLowerCase(availableVoices[i].id) = toLowerCase(voiceName)
                     \/ toLowerCase(availableVoices[i].name) = toLowerCase(voiceName)}
    IN  IF found = {} THEN NoVoice
        ELSE availableVoices[CHOOSE i \in found : \A j \in found : i <= j]

SystemDefault == "System Default"

\* VoiceIntelligence.getUsedVoiceInfo(languageCode): the voice its text
\* names, SystemDefault for every "System Default (...)" text.
VoiceIntelligence_getUsedVoiceInfo(languageCode) ==
    IF Truthy(languageCode) /\ isVoiceName(languageCode)
    THEN IF findVoiceByName(languageCode) # NoVoice
         THEN findVoiceByName(languageCode).name
         ELSE SystemDefault
    ELSE IF Truthy(languageCode) /\ getBestVoiceForLanguage(languageCode) # NoVoice
         THEN getBestVoiceForLanguage(languageCode).name
         ELSE SystemDefault

\* VoiceIntelligence.getVoiceCommand(text, languageCode): the voice argument
\* of the command line it builds, SystemDefault when it passes none.
getVoiceCommand(languageCode) ==
    CASE platform = "darwin" ->
            IF Truthy(languageCode) /\ isVoiceName(languageCode)
            THEN IF findVoiceByName(languageCode) # NoVoice
                 THEN findVoiceByName(languageCode).id
                 ELSE SystemDefault
            ELSE IF Truthy(languageCode) /\ getBestVoiceForLanguage(languageCode) # NoVoice
                 THEN getBestVoiceForLanguage(languageCode).id
                 ELSE SystemDefault
      [] platform = "win32" ->
            IF Truthy(languageCode) /\ getBestVoiceForLanguage(languageCode) # NoVoice
            THEN getBestVoiceForLanguage(languageCode).id
            ELSE SystemDefault
      [] platform = "linux" ->
            IF Truthy(languageCode) THEN languageCode ELSE SystemDefault
      [] OTHER -> "threw"

\* Numbers are counted in hundredths (0.25 is 25, 4.0 is 400); a value is a
\* number, NaN or undefined.
Num(v) == [type |-> "number", v |-> v]
NaN == [type |-> "NaN", v |-> 0]
Undefined == [type |-> "undefined", v |-> 0]

\* JavaScript truthiness of a number-or-undefined value.
TruthyNumber(x) == x.type = "number" /\ x.v # 0

\* Math.min and Math.max: NaN when an argument is NaN.
MathMin(a, b) ==
    IF a.type = "NaN" \/ b.type = "NaN" THEN NaN
    ELSE IF a.v <= b.v THEN a ELSE b

MathMax(a, b) ==
    IF a.type = "NaN" \/ b.type = "NaN" THEN NaN
    ELSE IF a.v >= b.v THEN a ELSE b

\* parseFloat on the DEFAULT_TTS_SPEED strings of the model.
parseFloat(str) ==
    CASE str = "1.0" -> Num(100)
      [] str = "1.5" -> Num(150)
      [] str = "9" -> Num(900)
      [] OTHER -> NaN

\* options.speed || parseFloat(process.env.DEFAULT_TTS_SPEED || '1.0')
SpeedOrDefault(speed) ==
    IF TruthyNumber(speed) THEN speed
    ELSE parseFloat(OrElse(ttsEnv.DEFAULT_TTS_SPEED, "1.0"))

\* The speed OpenAIVoiceEngine.synthesizeVoice puts in the API request.
RequestSpeed(speed) == MathMax(Num(25), MathMin(Num(400), SpeedOrDefault(speed)))

\* The voice the selector's getUsedVoiceInfo asks the OpenAI engine to
\* describe.
DescribedOpenAIVoice(o) == OrElse(o.openaiVoice, "nova")

\* VoiceEngineSelector.getUsedVoiceInfo(options): the engine and the voice
\* its text names.
UsedVoiceInfo(o) ==
    IF selectEngine(o) = "openai"
    THEN IF getVoiceInfoThrows(DescribedOpenAIVoice(o))
         THEN [engine |-> "threw", voice |-> "none"]
         ELSE [engine |-> "OpenAI", voice |-> DescribedOpenAIVoice(o)]
    ELSE [engine |-> "Platform", voice |-> VoiceIntelligence_getUsedVoiceInfo(o.language)]

NoInvocation == [engine |-> "none", voice |-> "none", speed |-> Undefined]

\* What the first attempt of synthesizeVoice(text, options) hands to its
\* backend: the voice and speed of the OpenAI API request, or the voice
\* argument of the platform command.
FirstInvocation(o) ==
    IF selectEngine(o) = "openai"
    THEN IF EngineGuardThrows THEN NoInvocation
         ELSE [engine |-> "openai",
               voice |-> OrElse(o.openaiVoice, defaultVoice),
               speed |-> RequestSpeed(o.openaiSpeed)]
    ELSE IF getVoiceCommand(o.language) = "threw" THEN NoInvocation
         ELSE [engine |-> "platform",
               voice |-> getVoiceCommand(o.language),
               speed |-> Undefined]

\* DEFAULT_TTS_VOICE: unset, a voice of the table, a name outside it.
\* DEFAULT_TTS_SPEED: unset, in range, out of range, not a number.
TtsEnvs ==
    [DEFAULT_TTS_VOICE : {"undefined", "onyx", "coral"},
     DEFAULT_TTS_SPEED : {"undefined", "1.5", "9", "fast"}]

\* language: absent, language codes with and without a voice, voice names
\* (installed on macOS, in another case, not installed).
Languages == {"undefined", "pl", "en", "de", "Zofia", "samantha", "Ewa"}

Speeds == {Undefined, Num(-100), Num(0), Num(10), Num(25), Num(100), Num(400), Num(500)}

PrepareOptions ==
    [useOpenAI : UseOpenAIOptions, openaiVoice : {"undefined", "onyx", "coral"},
     language : Languages, openaiSpeed : Speeds]

\* The client asks getUsedVoiceInfo(o) and synthesizeVoice(text, o) starts its
\* first attempt, with nothing changed in between.  One request is looked at
\* per run: the answers depend on nothing an earlier request leaves behind.
Prepare(o) ==
    /\ probe = NoProbe
    /\ probe' = [state |-> "prepared", options |-> o, engine |-> selectEngine(o),
                 described |-> UsedVoiceInfo(o), invocation |-> FirstInvocation(o)]
    /\ UNCHANGED <<envVars, fallbackEnabled, pc, entry, opts, selectedEngine,
                   preview, attempts, cloudResponse, thrown, fallbackError, result,
                   ack, ackTag, credentialError, clock, startTime, attemptStart, duration,
                   filePath, player>>

\* An array of echo volumes, in hundredths.
Arr(seq) == [type |-> "array", v |-> seq]
\* The volume field when it is absent.
NoArr == [type |-> "undefined", v |-> << >>]

\* delay in milliseconds, volume per repeat, number of repeats.
CLAUDE_SIGNATURE_ECHO ==
    [delay |-> Num(110), volume |-> Arr(<<30, 10, 3, 1>>), repeats |-> Num(4)]

\* x || d on a number, an array or undefined: an array is truthy, also when
\* it is empty.
OrDefault(x, d) == IF x.type = "array" \/ TruthyNumber(x) THEN x ELSE d

\* The echo argument of a request: absent, a boolean or an EchoOptions object
\* with each field present or not.
NoEchoFields == [delay |-> Undefined, volume |-> NoArr, repeats |-> Undefined]
EchoArguments ==
    {[kind |-> k, fields |-> NoEchoFields] : k \in {"undefined", "true", "false"}}
    \cup
    {[kind |-> "object", fields |-> f] :
        f \in [delay : {Undefined, Num(50), Num(250)},
               volume : {NoArr, Arr(<<50>>), Arr(<<80, 40, 20>>)},
               repeats : {Undefined, Num(0), Num(1), Num(3)}]}

\* The echo settings playAudioInBackground hands to the command builder.
EchoSettings(echoOptions) ==
    IF echoOptions.kind = "object"
    THEN [delay |-> OrDefault(echoOptions.fields.delay, CLAUDE_SIGNATURE_ECHO.delay),
          volume |-> OrDefault(echoOptions.fields.volume, CLAUDE_SIGNATURE_ECHO.volume),
          repeats |-> OrDefault(echoOptions.fields.repeats, CLAUDE_SIGNATURE_ECHO.repeats)]
    ELSE CLAUDE_SIGNATURE_ECHO

\* The volume of the i-th repeat in the macOS command.
EchoVolume(volume, i) ==
    IF i <= Len(volume.v) /\ volume.v[i] # 0 THEN volume.v[i]
    ELSE IF Len(volume.v) > 0 /\ volume.v[Len(volume.v)] # 0 THEN volume.v[Len(volume.v)]
    ELSE 10

\* The repeats that follow the original sound in the command of the platform:
\* the i-th starts after i delays; only afplay is given a volume, the players
\* of the other platforms play every repeat as the file is.
EchoRepeats(echo) ==
    [i \in 1..echo.repeats.v |->
        [delay |-> echo.delay.v * i,
         volume |-> IF platform = "darwin" THEN EchoVolume(echo.volume, i) ELSE 100]]

\* playAudioInBackground(filePath, echoOptions): the command it runs.
PlayerCommand(echoOptions) ==
    LET enableEcho == echoOptions.kind # "false"
        echo == EchoSettings(echoOptions)
    IN  IF ~HasAudioPlayer
        THEN [started |-> FALSE, enableEcho |-> enableEcho, echo |-> echo,
              repeats |-> << >>]
        ELSE [started |-> TRUE, enableEcho |-> enableEcho, echo |-> echo,
              repeats |-> IF enableEcho THEN EchoRepeats(echo) ELSE << >>]

\* The OpenAI engine has written the audio of a request whose echo argument
\* is echoOptions and starts the player.
PlayAudio(echoOptions) ==
    /\ probe = NoProbe
    /\ isEngineAvailable
    /\ probe' = [state |-> "played", echoOptions |-> echoOptions,
                 command |-> PlayerCommand(echoOptions)]
    /\ UNCHANGED <<envVars, fallbackEnabled, requestVars>>

\* The server started on any platform, with any environment and any outcome
\* of voice discovery.
PrepareInit ==
    /\ CoreInit
    /\ ttsEnv \in TtsEnvs
    /\ availableVoices \in Installations(platform)
    /\ boot = Booted

PrepareNext ==
    \/ \E o \in PrepareOptions : Prepare(o)
    \/ \E echoOptions \in EchoArguments : PlayAudio(echoOptions)

PrepareSpec == PrepareInit /\ [][PrepareNext]_vars

----------------------------------------------------------------------------
\* The best voice of a language over every list of discovered voices

\* Most voices a discovery finds.
MaxVoices == 3

\* What discovery records of a voice besides its name.
VoiceKinds ==
    [languageCode : {"pl", "en"}, quality : {"standard", "enhanced", "premium"},
     gender : {"male", "female"}]

VoiceNames == <<"Voice 1", "Voice 2", "Voice 3", "Voice 4", "Voice 5">>

\* Every list of at most MaxVoices voices, in every discovery order.
DiscoveredLists ==
    {[i \in DOMAIN kinds |->
         Voice(VoiceNames[i], kinds[i].languageCode, kinds[i].quality, kinds[i].gender)] :
       kinds \in UNION {[1..n -> VoiceKinds] : n \in 0..MaxVoices}}

\* getBestVoiceForLanguage(languageCode) is asked on the initialized server.
LookupBestVoice(languageCode) ==
    /\ probe = NoProbe
    /\ probe' = [state |-> "lookup", languageCode |-> languageCode,
                 best |-> getBestVoiceForLanguage(languageCode)]
    /\ UNCHANGED <<envVars, fallbackEnabled, requestVars>>

\* A macOS server (the platform whose discovery tells the quality tiers
\* apart) after initialization, with any list of voices discovered.
RankInit ==
    /\ CoreInit
    /\ platform = "darwin"
    /\ ttsEnv = NoTtsEnv
    /\ availableVoices \in DiscoveredLists
    /\ boot = Booted

RankNext == \E languageCode \in {"pl", "en", "de"} : LookupBestVoice(languageCode)

RankSpec == RankInit /\ [][RankNext]_vars

----------------------------------------------------------------------------
\* The process from its start: construction, main() and the tools/list handler

\* The module is loaded and no constructor has run: the fields hold their
\* initializers.
Unbooted ==
    [phase |-> "start", apiKey |-> "(not read)", clientThrows |-> FALSE,
     initialized |-> FALSE, initRuns |-> 0, cleanups |-> 0,
     supportedLanguages |-> << >>, listed |-> FALSE]

\* NexusVoiceHybrid.getInstance(): the selector's constructor reads
\* OPENAI_API_KEY and builds the engines.
Construct(key, throws) ==
    /\ boot.phase = "start"
    /\ isAvailable' = ConstructedAvailable(key, throws)
    /\ openai' = ConstructedClient(key, throws)
    /\ preferOpenAI' = ConstructedPreference(key, throws)
    /\ boot' = [boot EXCEPT !.phase = "constructed", !.apiKey = key,
                            !.clientThrows = throws]
    /\ UNCHANGED <<platform, ttsEnv, availableVoices, fallbackEnabled, requestVars, probe>>

\* The body of VoiceEngineSelector.initialize: discovery appends the voices
\* found to availableVoices, buildLanguageMapping appends the language codes
\* of the list, and the old audio files are cleaned up when the OpenAI engine
\* is available.
InitializeBody(b, voices, catalogue) ==
    [boot |-> [b EXCEPT !.initialized = TRUE,
                        !.initRuns = @ + 1,
                        !.cleanups = IF isEngineAvailable THEN @ + 1 ELSE @,
                        !.supportedLanguages = @ \o LanguageCodes(voices \o catalogue)],
     voices |-> voices \o catalogue]

\* Variant: initialize() runs its body on every call.
initialize_Unguarded(b, voices, catalogue) == InitializeBody(b, voices, catalogue)

\* NexusVoiceHybrid.initialize().
initialize(b, voices, catalogue) ==
    IF ~b.initialized
    THEN InitializeBody(b, voices, catalogue)
    ELSE [boot |-> b, voices |-> voices]

\* main() awaits voiceEngine.initialize().
MainInitialize(catalogue) ==
    /\ boot.phase = "constructed"
    /\ LET i == initialize(boot, availableVoices, catalogue)
       IN  /\ boot' = [i.boot EXCEPT !.phase = "initialized"]
           /\ availableVoices' = i.voices
    /\ UNCHANGED <<platform, isAvailable, openai, preferOpenAI, ttsEnv, fallbackEnabled,
                   requestVars, probe>>

\* main() connects the transport: requests are accepted from here on.
Connect ==
    /\ boot.phase = "initialized"
    /\ boot' = [boot EXCEPT !.phase = "connected"]
    /\ UNCHANGED <<platform, isAvailable, openai, preferOpenAI, ttsEnv, availableVoices,
                   fallbackEnabled, requestVars, probe>>

\* The ListToolsRequestSchema handler: it awaits voiceEngine.initialize() and
\* answers with the tool schema.
ListTools(catalogue) ==
    /\ boot.phase = "connected"
    /\ LET i == initialize(boot, availableVoices, catalogue)
       IN  /\ boot' = [i.boot EXCEPT !.listed = TRUE]
           /\ availableVoices' = i.voices
    /\ UNCHANGED <<platform, isAvailable, openai, preferOpenAI, ttsEnv, fallbackEnabled,
                   requestVars, probe>>

\* Option objects for a getUsedVoiceInfo call: every engine choice, a voice
\* inside and outside OPENAI_VOICES, a language with and without a voice.
DescribeOptions ==
    [useOpenAI : UseOpenAIOptions, openaiVoice : {"undefined", "coral"},
     language : {"undefined", "pl"}, openaiSpeed : {Undefined}]

\* Variant: the call keeps the engine it selected as the preference.
GetUsedVoiceInfo_KeepsSelection(o) ==
    /\ boot.phase = "connected"
    /\ probe' = [state |-> "described", options |-> o, engine |-> selectEngine(o),
                 described |-> UsedVoiceInfo(o), invocation |-> NoInvocation]
    /\ preferOpenAI' = (selectEngine(o) = "openai")
    /\ UNCHANGED <<platform, isAvailable, openai, ttsEnv, availableVoices, boot,
                   fallbackEnabled, requestVars>>

\* A call of voiceEngine.getUsedVoiceInfo(o) on the running server, whatever
\* it returns or throws.
GetUsedVoiceInfo(o) ==
    /\ boot.phase = "connected"
    /\ probe' = [state |-> "described", options |-> o, engine |-> selectEngine(o),
                 described |-> UsedVoiceInfo(o), invocation |-> NoInvocation]
    /\ UNCHANGED <<envVars, fallbackEnabled, requestVars>>

StartupInit ==
    /\ platform \in Platforms
    /\ isAvailable = FALSE
    /\ openai = "null"
    /\ preferOpenAI = FALSE
    /\ fallbackEnabled = TRUE
    /\ NoRequests
    /\ ttsEnv = NoTtsEnv
    /\ availableVoices = << >>
    /\ boot = Unbooted

\* say calls that leave the engine and the voice to the server.
StartupArguments ==
    {a \in SayArguments : a.useOpenAI = "undefined" /\ a.openaiVoice = "undefined"}

StartupNext ==
    \/ \E key \in ApiKeys : \E throws \in BOOLEAN : Construct(key, throws)
    \/ \E catalogue \in Installations(platform) : MainInitialize(catalogue)
    \/ Connect
    \/ \E catalogue \in Installations(platform) : ListTools(catalogue)
    \/ \E o \in DescribeOptions : GetUsedVoiceInfo(o)
    \/ \E r \in Requests : \E a \in StartupArguments : Say(r, a)
    \/ \E r \in Requests : \E outcome \in CloudOutcomes : CloudReturn(r, outcome)
    \/ \E r \in Requests : \E outcome \in LocalOutcomes : LocalReturn(r, outcome)
    \/ \E r \in Requests : Catch(r)

StartupSpec == StartupInit /\ [][StartupNext]_vars

----------------------------------------------------------------------------
\* Properties

Finishes(r) == pc[r] # "done" /\ pc'[r] = "done"

\* The Cloud backend of request r came back with a failure.
CloudFailed(r) == cloudResponse[r].state = "returned" /\ ~cloudResponse[r].success

\* Message msg carries every fragment of the error message err.
Mentions(msg, err) == \A i \in DOMAIN err : Contains(msg, err[i])

\* The first attempt of request r was on the platform engine and its process
\* exited with an error.
LocalFirstAttemptFailed(r) ==
    /\ selectedEngine[r] = "platform"
    /\ attempts[r] # << >>
    /\ thrown[r] = PlatformFailureMessage("exit1")

\* C1: whenever a request routed to Cloud, whose Cloud invocation failed,
\* finishes while fallback is enabled, a Local attempt was made and the final
\* result has engineUsed = Local with an errorMessage that contains the
\* original Cloud failure reason (and success = true when Local succeeded).
C1_CloudFailureFallsBack ==
    [][\A r \in Requests :
          (Finishes(r) /\ fallbackEnabled /\ selectedEngine[r] = "openai"
              /\ cloudResponse'[r].state = "returned" /\ ~cloudResponse'[r].success)
          => /\ Contains(attempts'[r], "platform")
             /\ result'[r].kind = "resolved"
             /\ result'[r].engine = "platform"
             /\ Mentions(result'[r].error, cloudResponse'[r].error)]_vars

\* The step in which the Cloud invocation of request r comes back with a
\* failure and synthesizeVoice handles it.
CloudFailureHandled(r) ==
    /\ pc[r] = "awaitCloud"
    /\ cloudResponse'[r].state = "returned"
    /\ ~cloudResponse'[r].success

C4_DoubleFailureKeepsCloudReason ==
    \A r \in Requests :
        (pc[r] = "done" /\ selectedEngine[r] = "openai" /\ CloudFailed(r)
            /\ attempts[r] = <<"openai", "platform">>
            /\ ~(result[r].kind = "resolved" /\ result[r].success))
        => /\ result[r].engine = "platform"
           /\ ~result[r].success
           /\ Mentions(result[r].error, cloudResponse[r].error)

\* C5: a request makes at most two backend attempts, at most one on Cloud and
\* at most one on Local; nothing follows a Local attempt and no Cloud attempt
\* follows a Local one.
C5_AtMostOneFallback ==
    \A r \in Requests :
        attempts[r] \in {<< >>, <<"openai">>, <<"platform">>, <<"openai", "platform">>}

C5_Witness ==
    \E r \in Requests :
        /\ pc[r] = "done"
        /\ attempts[r] = <<"openai", "platform">>
        /\ result[r].kind = "rejected"

\* C6: with useOpenAI = false, selectEngine returns Local for every
\* EngineStatus, also when Cloud is available and preferred.
C6_ExplicitPlatformWins ==
    /\ \A o \in HybridOptions : o.useOpenAI = "false" => selectEngine(o) = "platform"
    /\ \A r \in Requests :
          (opts[r].useOpenAI = "false" /\ selectedEngine[r] # "none")
          => /\ selectedEngine[r] = "platform"
             /\ ~Contains(attempts[r], "openai")

C6_Witness ==
    \E r \in Requests :
        /\ opts[r].useOpenAI = "false" /\ selectedEngine[r] = "platform"
        /\ getEngineStatus.openai /\ getEngineStatus.preferred = "openai"
        /\ pc[r] = "done" /\ attempts[r] = <<"platform">>

C8_UnsetFollowsPreference ==
    /\ \A a \in SayArguments :
          TypeOf(a.useOpenAI) # "boolean"
          => selectEngine(BuildHybridOptions(a)) = getEngineStatus.preferred
    /\ \A r \in Requests :
          (opts[r].useOpenAI = "undefined" /\ selectedEngine[r] # "none")
          => /\ selectedEngine[r] = getEngineStatus.preferred
             /\ selectedEngine[r] = (IF getEngineStatus.openai THEN "openai" ELSE "platform")
             /\ ~credentialError[r]

C8_Witness ==
    \E r \in Requests :
        /\ opts[r].useOpenAI = "undefined" /\ entry[r] = "say"
        /\ selectedEngine[r] = "openai" /\ getEngineStatus.preferred = "openai"
        /\ pc[r] = "done" /\ ~credentialError[r]

\* C9: the Cloud backend is never invoked while Cloud is unavailable, so the
\* credential error is never raised and never becomes the cause of a fallback.
C9_NoCloudWithoutCredential ==
    \A r \in Requests :
        /\ Contains(attempts[r], "openai") => isOpenAIAvailable
        /\ selectedEngine[r] = "openai" => isOpenAIAvailable
        /\ ~credentialError[r]
        /\ thrown[r] # NotAvailableMessage
        /\ fallbackError[r].message # NotAvailableMessage

C9_Witness ==
    /\ ~isOpenAIAvailable /\ ~fallbackEnabled
    /\ \E r \in Requests :
          /\ opts[r].useOpenAI = "true" /\ pc[r] = "done"
          /\ attempts[r] = <<"platform">>

C12_StatusWellFormed ==
    /\ getEngineStatus.platform = TRUE
    /\ (getEngineStatus.preferred = "openai") <=> (getEngineStatus.openai = TRUE)
    /\ getEngineStatus.preferred \in {"openai", "platform"}

C12_Witness ==
    /\ getEngineStatus.openai /\ getEngineStatus.preferred = "openai"
    /\ ~fallbackEnabled
    /\ \E r \in Requests : pc[r] = "done" /\ CloudFailed(r) /\ entry[r] = "say"

\* C13: no step of the program (say calls, backend returns, failures,
\* fallbacks, setFallbackEnabled) changes the value getEngineStatus()
\* returns, so any two calls made after construction return the same value.
C13_StatusNeverChanges == [][getEngineStatus' = getEngineStatus]_vars

C13_Witness ==
    /\ ~fallbackEnabled
    /\ \E r, q \in Requests :
          /\ pc[r] = "done" /\ attempts[r] = <<"openai", "platform">>
          /\ result[r].kind = "resolved" /\ result[r].engine = "platform"
          /\ pc[q] = "done" /\ entry[q] = "say" /\ result[q].kind = "rejected"

\* A tools/call request that passes the structural requirements: it names the
\* say tool, carries an arguments object, and its text is a string.
StructurallyValid(a) ==
    a.name = "say" /\ a.args = "object" /\ TypeOf(a.text) = "string"

ValidationErrors == {"MethodNotFound", "InvalidParams"}

\* C14: every structurally valid say call is answered with the success-shaped
\* acknowledgement, never with an error, whatever its optional parameters
\* (a cloud voice name outside the six known voices included).
C14_ValidRequestAcknowledged ==
    [][\A r \in Requests :
          (entry[r] = "none" /\ entry'[r] = "say") =>
             \A a \in SayArguments :
                (StructurallyValid(a) /\ Say(r, a)) => ack'[r] = "ok"]_vars

C16_InvalidCallRefused ==
    [][\A r \in Requests :
          /\ (entry[r] = "none" /\ entry'[r] = "say") =>
                \A a \in SayArguments :
                   (~StructurallyValid(a) /\ Say(r, a))
                   => /\ ack'[r] = IF a.name # "say" THEN "MethodNotFound"
                                                     ELSE "InvalidParams"
                      /\ pc'[r] = "refused"
          /\ ack'[r] \in ValidationErrors
                => /\ pc'[r] = "refused"
                   /\ preview'[r] = "none"
                   /\ selectedEngine'[r] = "none"
                   /\ attempts'[r] = << >>
                   /\ cloudResponse'[r] = NoResponse
                   /\ ~fallbackError'[r].set
                   /\ result'[r] = NoResult]_vars

C16_Witness ==
    \E r, q \in Requests :
        /\ ack[r] = "InvalidParams" /\ pc[r] = "refused" /\ attempts[r] = << >>
        /\ ack[q] = "MethodNotFound" /\ selectedEngine[q] = "none"

Attempting == {"awaitCloud", "awaitLocal", "thrown"}
Terminal == {"done", "refused"}

\* The moves of synthesizeVoice for request r: from the start to the attempt
\* on the selected engine, from the OpenAI attempt to the end or to the one
\* platform attempt of the fallback, from a platform attempt to the end only,
\* and nowhere from the end.
LegalMove(r) ==
    /\ pc[r] = "idle" => pc'[r] \in {"idle", "refused"} \cup Attempting
    /\ pc[r] = "awaitCloud" =>
          /\ pc'[r] \in {"awaitCloud", "awaitLocal", "done"}
          /\ pc'[r] = "awaitLocal" <=> attempts'[r] = <<"openai", "platform">>
          /\ pc'[r] # "awaitLocal" => attempts'[r] = attempts[r]
    /\ pc[r] = "thrown" =>
          /\ pc'[r] \in {"thrown", "awaitLocal", "done"}
          /\ pc'[r] = "awaitLocal" => selectedEngine[r] = "openai"
    /\ pc[r] = "awaitLocal" =>
          /\ pc'[r] \in {"awaitLocal", "done"}
          /\ attempts'[r] = attempts[r]
    /\ pc[r] \in Terminal =>
          /\ pc'[r] = pc[r] /\ result'[r] = result[r]
          /\ attempts'[r] = attempts[r] /\ selectedEngine'[r] = selectedEngine[r]
    /\ pc'[r] = "done" => result'[r].kind \in {"resolved", "rejected"}

\* C20: when every backend invocation eventually returns, there comes a
\* point after which no synthesize call is attempting an engine any more:
\* every call that was started has ended (resolved or rejected).  A call
\* moves only from the start to an attempt on the selected engine, at most
\* once from the OpenAI attempt to a platform attempt, and then to the end,
\* and an ended call never moves again.
C20_EveryCallEnds ==
    /\ [][\A r \in Requests : LegalMove(r)]_vars
    /\ <>[](\A r \in Requests : pc[r] \notin Attempting)

C20_Witness ==
    \E r \in Requests :
        /\ pc[r] = "done" /\ selectedEngine[r] = "openai"
        /\ attempts[r] = <<"openai", "platform">>
        /\ fallbackError[r].set /\ result[r].kind = "resolved"

\* C18: any two Cloud syntheses that wrote their audio, those that reach the
\* file-write step at the same clock reading included, wrote it to distinct
\* file paths.
C18_DistinctAudioFiles ==
    \A r, q \in Requests :
        (r # q /\ filePath[r] # NoFile /\ filePath[q] # NoFile)
        => filePath[r] # filePath[q]

\* C19: the duration of a result object is the time from the start of
\* synthesizeVoice to the return of the last attempt; in a fallback run it
\* is at least the time the failed OpenAI attempt took plus the time the
\* platform attempt took.
C19_DurationSpansAllAttempts ==
    [][\A r \in Requests :
          (Finishes(r) /\ result'[r].kind = "resolved")
          => /\ duration'[r] = clock - startTime[r]
             /\ startTime[r] >= 0
             /\ attempts'[r] = <<"openai", "platform">>
                   => duration'[r] >= (attemptStart[r] - startTime[r])
                                        + (clock - attemptStart[r])]_vars

C19_Witness ==
    \E r \in Requests :
        /\ pc[r] = "done" /\ attempts[r] = <<"openai", "platform">>
        /\ result[r].kind = "resolved" /\ result[r].engine = "platform"
        /\ attemptStart[r] - startTime[r] = 1
        /\ clock - attemptStart[r] = 1
        /\ duration[r] = 2

\* C11: whenever a request is described and then synthesized with nothing
\* changed in between, the voice the description names is the voice the first
\* attempt hands to the backend it selected: on the OpenAI engine also when
\* openaiVoice is absent and DEFAULT_TTS_VOICE is configured, on the platform
\* engine for every platform and every language or voice-name value.
C11_DescribedVoiceIsUsedVoice ==
    (probe.state = "prepared" /\ probe.described.engine # "threw"
        /\ probe.invocation.engine # "none")
    => probe.described.voice = probe.invocation.voice

Clamp(v) == IF v < 25 THEN 25 ELSE IF v > 400 THEN 400 ELSE v

\* C17: for every number given as openaiSpeed in a request routed to the
\* OpenAI engine, the speed of the API request is that number clamped into
\* [0.25, 4.0]: 0.25 for everything below (0 and negatives included), 4.0
\* for everything above, the number itself otherwise.
C17_SpeedIsClamped ==
    (probe.state = "prepared" /\ probe.invocation.engine = "openai"
        /\ probe.options.openaiSpeed.type = "number")
    => probe.invocation.speed = Num(Clamp(probe.options.openaiSpeed.v))

----------------------------------------------------------------------------
\* The engine named by a tag of the acknowledgement text.
TaggedEngine(tag) ==
    CASE tag \in {"[OpenAI TTS]", "[Auto: OpenAI preferred]"} -> "openai"
      [] tag = "[Platform TTS]" -> "platform"
      [] OTHER -> "none"

\* C27: for every acknowledged say request the engine tag written into the
\* acknowledgement names the engine selectEngine chooses for the request's
\* options under the engine status, which is also the engine the request was
\* dispatched to.
C27_TagNamesSelectedEngine ==
    \A r \in Requests :
        ack[r] = "ok" =>
            /\ TaggedEngine(ackTag[r]) = selectEngine(opts[r])
            /\ TaggedEngine(ackTag[r]) = selectedEngine[r]

\* An acknowledged request that asked for OpenAI on a server without it: the
\* handler's chain falls through to its last branch and tags Platform.
C27_Witness ==
    \E r \in Requests :
        /\ ack[r] = "ok"
        /\ opts[r].useOpenAI = "true"
        /\ ackTag[r] = "[Platform TTS]"
        /\ selectedEngine[r] = "platform"

----------------------------------------------------------------------------
\* A backend attempt that has not come back yet.
InFlight == {"awaitCloud", "awaitLocal"}

\* A say call with a text and nothing else.
PlainSay ==
    [name |-> "say", args |-> "object", text |-> "Hello",
     useOpenAI |-> "undefined", openaiVoice |-> "undefined"]

BackendReturns(r) ==
    \/ \E outcome \in CloudOutcomes : CloudReturn(r, outcome)
    \/ \E outcome \in LocalOutcomes : LocalReturn(r, outcome)

\* C21: requests are neither queued nor mutually excluded: while the attempt
\* of one request is in flight the next say request can be taken up and
\* acknowledged, and when two attempts are in flight either of them can come
\* back first.
C21_NoMutualExclusion ==
    \A r \in Requests : \A q \in Requests \ {r} :
        /\ (/\ pc[r] \in InFlight
            /\ entry[q] = "none"
            /\ \A p \in Requests : p < q => entry[p] # "none")
           => ENABLED (Say(q, PlainSay) /\ ack'[q] = "ok")
        /\ (pc[r] \in InFlight /\ pc[q] \in InFlight)
           => (ENABLED BackendReturns(r)) /\ (ENABLED BackendReturns(q))

\* Two say requests overlapped and the later one ended first: the second
\* request has its result while the attempt of the first is still in flight.
C21_Witness ==
    /\ entry[1] = "say" /\ entry[2] = "say"
    /\ pc[1] \in InFlight
    /\ pc[2] = "done" /\ result[2].kind # "none"

----------------------------------------------------------------------------
\* C25: the engine a request was routed to is the engine selectEngine gives
\* for its options in every later state, whatever the other requests did in
\* between, and two requests with the same useOpenAI are routed alike: routing
\* depends on useOpenAI and the status fixed at startup only.
C25_RoutingIgnoresHistory ==
    \A r \in Requests :
        selectedEngine[r] # "none" =>
            /\ selectedEngine[r] = selectEngine(opts[r])
            /\ \A q \in Requests :
                   (selectedEngine[q] # "none" /\ opts[q].useOpenAI = opts[r].useOpenAI)
                   => selectedEngine[q] = selectedEngine[r]

\* An earlier request went to OpenAI, fell back and failed on the platform
\* too, the fallback has been switched off, and a later request is still
\* routed to OpenAI.
C25_Witness ==
    \E r \in Requests : \E q \in Requests :
        /\ r < q
        /\ attempts[r] = <<"openai", "platform">>
        /\ pc[r] = "done" /\ result[r].kind = "rejected"
        /\ ~fallbackEnabled
        /\ selectedEngine[q] = "openai" /\ pc[q] = "awaitCloud"

----------------------------------------------------------------------------
\* C26: whether a failed Cloud attempt falls back is decided by the value the
\* fallback-enabled flag has in the step that handles the failure: the
\* fallback is begun exactly when the flag is set at that moment, whatever it
\* was when the request started.
C26_FallbackFollowsFlagAtFailure ==
    [][\A r \in Requests :
          CloudFailureHandled(r) => (fallbackError'[r].set <=> fallbackEnabled)]_vars

----------------------------------------------------------------------------
\* C24: the audio player is started only on the Cloud path, after the Cloud
\* backend returned audio and the audio file was written: a started player
\* plays the file the request wrote after a successful Cloud response, and no
\* player is started for a request that Local handled, as its first attempt
\* or as its fallback.
C24_PlayerOnlyOnCloudPath ==
    \A r \in Requests :
        /\ player[r] # NoFile =>
               /\ cloudResponse[r].state = "returned" /\ cloudResponse[r].success
               /\ filePath[r] = player[r]
        /\ Contains(attempts[r], "platform") => player[r] = NoFile

----------------------------------------------------------------------------
\* A credential that is present and has a character other than white space.
CredentialPresent(key) == key # "undefined" /\ key # "" /\ key # "  "

\* C22: once the engines are constructed, the OpenAI engine is reported
\* available exactly when the credential read at startup is present and not
\* blank and the client could be constructed; with an absent, empty or
\* white-space credential it is unavailable and the preferred engine is the
\* platform.
C22_AvailabilityFollowsCredential ==
    boot.phase # "start" =>
        /\ getEngineStatus.openai <=>
               (CredentialPresent(boot.apiKey) /\ ~boot.clientThrows)
        /\ ~CredentialPresent(boot.apiKey) =>
               (~getEngineStatus.openai /\ getEngineStatus.preferred = "platform")

\* The server is serving requests after it started with a credential made of
\* white space only.
C22_Witness ==
    /\ boot.phase = "connected"
    /\ boot.apiKey = "  "
    /\ ~getEngineStatus.openai
    /\ \E r \in Requests : selectedEngine[r] = "platform"

----------------------------------------------------------------------------
\* C23: a getUsedVoiceInfo call is free of side effects: the step in which
\* the call is answered invokes no backend, starts no player and writes no
\* file, leaves every request as it was, and leaves the engine status and the
\* fallback-enabled flag unchanged, for every option object.
C23_DescribingChangesNothing ==
    [][(probe' # probe /\ probe'.state = "described") =>
          /\ attempts' = attempts /\ cloudResponse' = cloudResponse
          /\ player' = player /\ filePath' = filePath
          /\ pc' = pc /\ result' = result /\ selectedEngine' = selectedEngine
          /\ getEngineStatus' = getEngineStatus
          /\ isAvailable' = isAvailable /\ openai' = openai
          /\ fallbackEnabled' = fallbackEnabled
          /\ availableVoices' = availableVoices]_vars

\* The call was answered for a platform voice while the Cloud attempt of a
\* request is in flight.
C23_Witness ==
    /\ probe.state = "described"
    /\ probe.engine = "platform"
    /\ probe.described.engine = "Platform"
    /\ \E r \in Requests : pc[r] = "awaitCloud"

----------------------------------------------------------------------------
\* An EchoConfig field inside its documented domain: a delay above 0, volumes
\* in (0, 1], a repeat count of 0 or more.
InDomain(field, x) ==
    CASE field = "delay" -> x.type = "number" /\ x.v > 0
      [] field = "volume" ->
            x.type = "array" /\ \A i \in DOMAIN x.v : x.v[i] > 0 /\ x.v[i] <= 100
      [] field = "repeats" -> x.type = "number" /\ x.v >= 0

\* C29: for a Cloud playback the echo is applied unless the request passes
\* echo = false, and with an EchoConfig object every field supplied inside
\* its domain, a repeat count of 0 included, is the setting used and every
\* absent field has its default: the command has as many repeats as the
\* repeat count says.
C29_EchoFieldsUsedAsGiven ==
    (probe.state = "played" /\ probe.command.started) =>
        LET given == probe.echoOptions
            used == probe.command.echo
            Setting(field, x, u, d) ==
                IF x.type = "undefined" THEN u = d
                ELSE InDomain(field, x) => u = x
        IN  /\ probe.command.enableEcho <=> (given.kind # "false")
            /\ given.kind = "object" =>
                   /\ Setting("delay", given.fields.delay, used.delay,
                              CLAUDE_SIGNATURE_ECHO.delay)
                   /\ Setting("volume", given.fields.volume, used.volume,
                              CLAUDE_SIGNATURE_ECHO.volume)
                   /\ Setting("repeats", given.fields.repeats, used.repeats,
                              CLAUDE_SIGNATURE_ECHO.repeats)
                   /\ (given.fields.repeats.type # "undefined") =>
                          Len(probe.command.repeats) = given.fields.repeats.v

----------------------------------------------------------------------------
\* Premium > Enhanced > Standard.
Tier(voice) ==
    CASE voice.quality = "premium" -> 3
      [] voice.quality = "enhanced" -> 2
      [] voice.quality = "standard" -> 1

\* The discovered voices of a language.
VoicesOf(languageCode) ==
    {availableVoices[i] : i \in {j \in DOMAIN availableVoices :
                                    availableVoices[j].languageCode = languageCode}}

====
